---- MODULE Spec2Model ----
(***************************************************************************)
(* Presence relay servers of JSBLEDebug.                                    *)
(*   ally-server.py : python-socketio server with a connection registry     *)
(*                    (clients), a state table (client_states) and a        *)
(*                    periodic reaper (cleanup_stale_clients).              *)
(*   server.py      : Flask-SocketIO server with one table (CLIENT_STATES). *)
(* Every handler is one action.  `ev` is the inbound event handled by the   *)
(* last step and `out` the outbound events that handler emitted, in order.  *)
(***************************************************************************)
EXTENDS Integers, Sequences, FiniteSets, TLC

VARIABLES
    now,            \* the clock read by time.time(), in seconds
    sio,            \* ally-server.py: sids the socketio.Server holds connected
    clients,        \* ally-server.py: sid -> connection record
    client_states,  \* ally-server.py: sid -> presence record
    socketio,       \* server.py: sids the SocketIO instance holds connected
    CLIENT_STATES,  \* server.py: sid -> presence record
    ev,             \* the inbound event the last step handled
    out,            \* the outbound events the last step emitted, in order
    reapedQuiet,    \* history: sids reaped that sent no event since
    neverSent,      \* history: sids that sent no event since they connected
    response,       \* server.py: HTTP status answered to the last REST request
    restStates,     \* rest_server.py: client_id -> presence record
    restPc          \* rest_server.py: request thread -> the request it runs

vars == <<now, sio, clients, client_states, socketio, CLIENT_STATES, ev, out,
          reapedQuiet, neverSent, response, restStates, restPc>>

allyVars == <<sio, clients, client_states, reapedQuiet, neverSent>>
srvVars == <<socketio, CLIENT_STATES>>
restVars == <<restStates, restPc>>

(***************************************************************************)
(* Bounds and inputs                                                        *)
(***************************************************************************)
MaxTime == 62
ReaperMaxTime == 122
SrvMaxTime == 1

SIDs == {"A", "B", "C"}
AllySIDs == {"A", "B"}
SrvSIDs == {"A", "B"}
Addrs == {"10.0.0.7"}
TickSteps == {30, 31}
SrvTickSteps == {1}

\* A payload is a tagged value: a dict (a record of the keys it carries), a
\* number, or a string (neither a dict nor a number).  The payloads an event
\* is tried with are listed in sequences.
Dict(d) == [type |-> "dict", value |-> d]
Num(n) == [type |-> "number", value |-> n]
Str(s) == [type |-> "str", value |-> s]
NoData == [type |-> "none", value |-> 0]

isdict(data) == data.type = "dict"
isnumber(data) == data.type = "number"

\* dict.get(key, default) and `key in dict`
has(d, k) == k \in DOMAIN d
get(d, k, default) == IF k \in DOMAIN d THEN d[k] ELSE default

\* d[k] = v and del d[k] on a dict held as a function
Put(d, k, v) == [x \in DOMAIN d \cup {k} |-> IF x = k THEN v ELSE d[x]]
Del(d, k) == [x \in DOMAIN d \ {k} |-> d[x]]
DelAll(d, ks) == [x \in DOMAIN d \ ks |-> d[x]]
EmptyDict == [x \in {} |-> 0]

StateFields == {"lat", "lon", "bearing", "team", "isDead", "kaiTagConnected"}

StatePayloads ==
    << Dict(EmptyDict),
      Dict([lat |-> 1, lon |-> 2, team |-> "red"]),
      Dict([team |-> "blue"]),
      Dict([bearing |-> 45]),
      Dict([isDead |-> TRUE, kaiTagConnected |-> FALSE]),
      Dict([kaiTagConnected |-> TRUE]),
      Str("bad") >>

DrawingPayloads ==
    << Dict([geojson |-> "shape", team |-> "red"]),
      Dict([geojson |-> "shape", team |-> "blue"]),
      Dict([geojson |-> "shape"]),
      Dict([team |-> "red"]),
      Str("bad") >>

BearingPayloads == << Num(90), Str("bad") >>

\* one outbound emit: the event, its payload and the sids it is addressed to
Msg(event, payload, to) == [event |-> event, payload |-> payload, to |-> to]

\* one inbound event: the handler, the sender, the payload, and whether the
\* sender had a registry record / a stored state when the handler started
Event(op, sid, data, reg, st) ==
    [op |-> op, sid |-> sid, data |-> data, hadRecord |-> reg, hadState |-> st]

\* the indices of the emits of the last handler that carry `event`
Emits(event) == {i \in 1..Len(out) : out[i].event = event}

\* the step is a run of handler `op` (a handler never moves the clock)
Handled(op) == now' = now /\ ev'.op = op

(***************************************************************************)
(* ally-server.py                                                           *)
(***************************************************************************)
stale_threshold == 60

\* a connect that sends the table to everybody instead of the newcomer only
connect_emits_to_all(sid, states) ==
    << Msg("your_id", sid, {sid}),
       Msg("all_states", states, sio \cup {sid}) >>

\* what connect emits: the newcomer's id and the current table, both to=sid
connect_emits(sid, states) ==
    << Msg("your_id", sid, {sid}),
       Msg("all_states", states, {sid}) >>

\* connect(sid, environ)
connect(sid, ip) ==
    /\ sid \notin sio
    /\ sio' = sio \cup {sid}
    /\ clients' = Put(clients, sid,
                      [connected_at |-> now, ip |-> ip, last_update |-> now])
    /\ out' = connect_emits(sid, client_states)
    /\ ev' = Event("connect", sid, NoData, sid \in DOMAIN clients,
                  sid \in DOMAIN client_states)
    /\ neverSent' = neverSent \cup {sid}
    /\ UNCHANGED <<now, client_states, reapedQuiet, srvVars, response, restVars>>

\* a disconnect that announces the departure but sends no refreshed table
disconnect_emits_no_refresh(sid, states) ==
    << Msg("client_disconnected", sid, sio \ {sid}) >>

\* the two emits of disconnect, given the table left after the removal
disconnect_emits(sid, states) ==
    << Msg("client_disconnected", sid, sio \ {sid}),
       Msg("all_states", states, sio \ {sid}) >>

\* disconnect(sid)
disconnect(sid) ==
    /\ sid \in sio
    /\ clients' = Del(clients, sid)
    /\ client_states' = Del(client_states, sid)
    /\ out' = disconnect_emits(sid, client_states')
    /\ sio' = sio \ {sid}
    /\ ev' = Event("disconnect", sid, NoData, sid \in DOMAIN clients,
                  sid \in DOMAIN client_states)
    /\ reapedQuiet' = reapedQuiet \ {sid}
    /\ neverSent' = neverSent \ {sid}
    /\ UNCHANGED <<now, srvVars, response, restVars>>

\* the record update_state stores for a dict payload
update_state_record(d, t) ==
    [lat |-> get(d, "lat", 0),
     lon |-> get(d, "lon", 0),
     bearing |-> get(d, "bearing", 0),
     team |-> get(d, "team", "blue"),
     isDead |-> get(d, "isDead", FALSE),
     kaiTagConnected |-> get(d, "kaiTagConnected", FALSE),
     timestamp |-> t * 1000]

\* an update_state whose full table is not sent back to the sender
update_state_emits_skip_sender(sid, d, states) ==
    << Msg("bearing_updated",
           [clientId |-> sid,
            bearing |-> get(d, "bearing", 0),
            timestamp |-> states[sid].timestamp],
           sio \ {sid}),
       Msg("all_states", states, sio \ {sid}) >>

\* what update_state emits for a dict payload d once the record is stored:
\* bearing_updated with skip_sid=sid, then all_states to everybody
update_state_emits(sid, d, states) ==
    << Msg("bearing_updated",
           [clientId |-> sid,
            bearing |-> get(d, "bearing", 0),
            timestamp |-> states[sid].timestamp],
           sio \ {sid}),
       Msg("all_states", states, sio) >>

\* update_state(sid, data)
update_state(sid, data) ==
    /\ sid \in sio
    /\ ev' = Event("update_state", sid, data, sid \in DOMAIN clients,
                  sid \in DOMAIN client_states)
    /\ reapedQuiet' = reapedQuiet \ {sid}
    /\ neverSent' = neverSent \ {sid}
    /\ IF ~isdict(data)
       THEN /\ out' = << >>
            /\ UNCHANGED <<clients, client_states>>
       ELSE /\ clients' = IF sid \in DOMAIN clients
                          THEN [clients EXCEPT ![sid].last_update = now]
                          ELSE clients
            /\ client_states' = Put(client_states, sid,
                                    update_state_record(data.value, now))
            /\ out' = update_state_emits(sid, data.value, client_states')
    /\ UNCHANGED <<now, sio, srvVars, response, restVars>>

\* a teammates list that forgets to leave the sender out
teammates_with_sender(sid, team) ==
    {client_id \in DOMAIN client_states :
        client_states[client_id].team = team}

\* a teammates list that is empty unless the sender is stored on that team
teammates_of_stored_sender(sid, team) ==
    {client_id \in DOMAIN client_states :
        /\ client_states[client_id].team = team
        /\ client_id # sid
        /\ sid \in DOMAIN client_states
        /\ client_states[sid].team = team}

\* the teammates list of share_drawing
teammates(sid, team) ==
    {client_id \in DOMAIN client_states :
        client_states[client_id].team = team /\ client_id # sid}

\* the new_drawing emits of share_drawing, one per teammate
RECURSIVE drawing_emits(_, _)
drawing_emits(S, drawing_data) ==
    IF S = {} THEN << >>
    ELSE LET t == CHOOSE x \in S : TRUE
         IN  <<Msg("new_drawing", drawing_data, {t})>>
             \o drawing_emits(S \ {t}, drawing_data)

\* share_drawing(sid, data)
share_drawing(sid, data) ==
    /\ sid \in sio
    /\ ev' = Event("share_drawing", sid, data, sid \in DOMAIN clients,
                  sid \in DOMAIN client_states)
    /\ reapedQuiet' = reapedQuiet \ {sid}
    /\ neverSent' = neverSent \ {sid}
    /\ IF ~isdict(data)
       THEN out' = << >>
       ELSE LET drawing_data == [clientId |-> sid,
                                 geojson |-> get(data.value, "geojson", "{}"),
                                 team |-> get(data.value, "team", "blue"),
                                 timestamp |-> now * 1000]
                team == get(data.value, "team", "blue")
            IN  out' = drawing_emits(teammates(sid, team), drawing_data)
    /\ UNCHANGED <<now, sio, clients, client_states, srvVars, response, restVars>>

\* a staleness test with the operands of the subtraction swapped
stale_clients_swapped ==
    {sid \in DOMAIN clients : clients[sid].last_update - now > stale_threshold}

\* a stale test that also reaps a client silent for exactly the threshold
stale_clients_inclusive ==
    {sid \in DOMAIN clients : now - clients[sid].last_update >= stale_threshold}

\* the stale_clients list of cleanup_stale_clients
stale_clients ==
    {sid \in DOMAIN clients : now - clients[sid].last_update > stale_threshold}

\* a pass that removes the registry record only
reaped_states_kept(stale) == client_states

\* what a pass leaves of client_states
reaped_states(stale) == DelAll(client_states, stale)

\* cleanup_stale_clients(), one pass of periodic_tasks
cleanup_stale_clients ==
    /\ clients' = DelAll(clients, stale_clients)
    /\ client_states' = reaped_states(stale_clients)
    /\ out' = IF stale_clients # {}
              THEN << Msg("all_states", client_states', sio) >>
              ELSE << >>
    /\ ev' = Event("cleanup_stale_clients", "", NoData, FALSE, FALSE)
    /\ reapedQuiet' = reapedQuiet \cup stale_clients
    /\ UNCHANGED <<now, sio, neverSent, srvVars, response, restVars>>

\* rest_server.py: the threads app.run(threaded=True) serves requests on
RestThreads == {"t1", "t2"}

\* a thread that is serving no request
Idle == [op |-> "idle", line |-> 0, client_id |-> "", data |-> NoData,
         hadState |-> FALSE, before |-> EmptyDict]

\* time passes between two handler runs
Tick(steps, limit) ==
    /\ \E d \in steps : now + d <= limit /\ now' = now + d
    /\ UNCHANGED <<allyVars, srvVars, ev, out, response, restVars>>

Init ==
    /\ now = 0
    /\ sio = {}
    /\ clients = EmptyDict
    /\ client_states = EmptyDict
    /\ socketio = {}
    /\ CLIENT_STATES = EmptyDict
    /\ ev = Event("start", "", NoData, FALSE, FALSE)
    /\ out = << >>
    /\ reapedQuiet = {}
    /\ neverSent = {}
    /\ response = 0
    /\ restStates = EmptyDict
    /\ restPc = [t \in RestThreads |-> Idle]

NextAlly ==
    \/ \E sid \in AllySIDs, ip \in Addrs : connect(sid, ip)
    \/ \E sid \in AllySIDs : disconnect(sid)
    \/ \E sid \in AllySIDs, i \in DOMAIN StatePayloads :
          update_state(sid, StatePayloads[i])
    \/ \E sid \in AllySIDs, i \in DOMAIN DrawingPayloads :
          share_drawing(sid, DrawingPayloads[i])
    \/ cleanup_stale_clients
    \/ Tick(TickSteps, MaxTime)

SpecAlly == Init /\ [][NextAlly]_vars

\* The same handlers with one payload per event, for the reaper's liveness:
\* periodic_tasks runs cleanup_stale_clients forever, and the clock advances.
ReaperStatePayloads == << Dict([bearing |-> 45]) >>
ReaperDrawingPayloads == << Dict([geojson |-> "shape", team |-> "blue"]) >>

\* a client connecting now is still within the clock's range when it is stale
Expirable == \A d \in TickSteps : now + stale_threshold + d <= ReaperMaxTime

NextReaper ==
    \/ \E sid \in AllySIDs, ip \in Addrs : Expirable /\ connect(sid, ip)
    \/ \E sid \in AllySIDs : disconnect(sid)
    \/ \E sid \in AllySIDs, i \in DOMAIN ReaperStatePayloads :
          update_state(sid, ReaperStatePayloads[i])
    \/ \E sid \in AllySIDs, i \in DOMAIN ReaperDrawingPayloads :
          share_drawing(sid, ReaperDrawingPayloads[i])
    \/ cleanup_stale_clients
    \/ Tick(TickSteps, ReaperMaxTime)

SpecReaper ==
    /\ Init /\ [][NextReaper]_vars
    /\ WF_vars(Tick(TickSteps, ReaperMaxTime))
    /\ WF_vars(cleanup_stale_clients)

(***************************************************************************)
(* server.py: the SocketIO handlers                                         *)
(***************************************************************************)
\* handle_connect()
handle_connect(sid) ==
    /\ sid \notin socketio
    /\ socketio' = socketio \cup {sid}
    /\ out' = << Msg("your_id", sid, {sid}),
                 Msg("all_states", CLIENT_STATES, {sid}) >>
    /\ ev' = Event("handle_connect", sid, NoData, FALSE,
                  sid \in DOMAIN CLIENT_STATES)
    /\ UNCHANGED <<now, CLIENT_STATES, allyVars, response, restVars>>

\* handle_disconnect()
handle_disconnect(sid) ==
    /\ sid \in socketio
    /\ CLIENT_STATES' = Del(CLIENT_STATES, sid)
    /\ out' = << Msg("client_disconnected", sid, socketio) >>
    /\ socketio' = socketio \ {sid}
    /\ ev' = Event("handle_disconnect", sid, NoData, FALSE,
                  sid \in DOMAIN CLIENT_STATES)
    /\ UNCHANGED <<now, allyVars, response, restVars>>

\* a merge that takes the default whenever the payload carries no team
merged_team_reset(rec, d) == get(d, "team", "blue")

\* the team handle_update_state leaves in a record: the payload's when it
\* carries one, "blue" when the record has none, else the record's
merged_team(rec, d) ==
    IF has(d, "team") THEN get(d, "team", "blue")
    ELSE IF ~has(rec, "team") THEN "blue"
    ELSE rec["team"]

\* the record handle_update_state leaves for a dict payload d, from the
\* record rec it found (the empty dict when the sid had none)
merged_record(rec, d, t) ==
    [lat |-> get(d, "lat", get(rec, "lat", 0)),
     lon |-> get(d, "lon", get(rec, "lon", 0)),
     bearing |-> get(d, "bearing", get(rec, "bearing", 0)),
     kaiTagConnected |->
        get(d, "kaiTagConnected", get(rec, "kaiTagConnected", TRUE)),
     isDead |-> get(d, "isDead", get(rec, "isDead", FALSE)),
     team |-> merged_team(rec, d),
     timestamp |-> t]

\* handle_update_state(data)
handle_update_state(sid, data) ==
    /\ sid \in socketio
    /\ ev' = Event("handle_update_state", sid, data, FALSE,
                  sid \in DOMAIN CLIENT_STATES)
    /\ IF isdict(data)
       THEN LET rec == IF sid \notin DOMAIN CLIENT_STATES
                       THEN EmptyDict ELSE CLIENT_STATES[sid]
            IN  /\ CLIENT_STATES' =
                      Put(CLIENT_STATES, sid, merged_record(rec, data.value, now))
                /\ out' = << Msg("all_states", CLIENT_STATES', socketio) >>
       ELSE /\ out' = << >>
            /\ UNCHANGED CLIENT_STATES
    /\ UNCHANGED <<now, socketio, allyVars, response, restVars>>

\* the default state handle_update_bearing creates for a sid without one
default_state ==
    [lat |-> 0, lon |-> 0, bearing |-> 0, timestamp |-> 0,
     team |-> "blue", kaiTagConnected |-> TRUE, isDead |-> FALSE]

\* a bearing update that also restores the tag flag of the default state
bearing_record_retag(rec, bearing, t) ==
    [rec EXCEPT !.bearing = bearing, !.timestamp = t,
                !.kaiTagConnected = TRUE]

\* the record handle_update_bearing leaves for a numeric payload
bearing_record(rec, bearing, t) ==
    [rec EXCEPT !.bearing = bearing, !.timestamp = t]

\* a bearing broadcast that leaves the sender out
bearing_emits_skip_sender(sid, bearing, t) ==
    << Msg("bearing_updated",
           [clientId |-> sid, bearing |-> bearing, timestamp |-> t],
           socketio \ {sid}) >>

\* what handle_update_bearing emits: one bearing_updated, broadcast=True
bearing_emits(sid, bearing, t) ==
    << Msg("bearing_updated",
           [clientId |-> sid, bearing |-> bearing, timestamp |-> t],
           socketio) >>

\* handle_update_bearing(bearing)
handle_update_bearing(sid, bearing) ==
    /\ sid \in socketio
    /\ ev' = Event("handle_update_bearing", sid, bearing, FALSE,
                  sid \in DOMAIN CLIENT_STATES)
    /\ LET found == IF sid \notin DOMAIN CLIENT_STATES
                    THEN Put(CLIENT_STATES, sid, default_state)
                    ELSE CLIENT_STATES
       IN  IF isnumber(bearing)
           THEN /\ CLIENT_STATES' =
                      Put(found, sid, bearing_record(found[sid], bearing.value, now))
                /\ out' = bearing_emits(sid, bearing.value, now)
           ELSE /\ CLIENT_STATES' = found
                /\ out' = << >>
    /\ UNCHANGED <<now, socketio, allyVars, response, restVars>>

\* the sids a broadcast of handle_share_drawing is addressed to
drawing_audience(sid) == socketio \ {sid}

\* handle_share_drawing(data)
handle_share_drawing(sid, data) ==
    /\ sid \in socketio
    /\ ev' = Event("handle_share_drawing", sid, data, FALSE,
                  sid \in DOMAIN CLIENT_STATES)
    /\ IF isdict(data) /\ has(data.value, "geojson") /\ has(data.value, "team")
       THEN out' = << Msg("new_drawing",
                          [geojson |-> data.value["geojson"],
                           clientId |-> sid,
                           team |-> data.value["team"]],
                          drawing_audience(sid)) >>
       ELSE out' = << >>
    /\ UNCHANGED <<now, socketio, CLIENT_STATES, allyVars, response, restVars>>

NextSrv ==
    \/ \E sid \in SrvSIDs : handle_connect(sid)
    \/ \E sid \in SrvSIDs : handle_disconnect(sid)
    \/ \E sid \in SrvSIDs, i \in DOMAIN StatePayloads :
          handle_update_state(sid, StatePayloads[i])
    \/ \E sid \in SrvSIDs, i \in DOMAIN BearingPayloads :
          handle_update_bearing(sid, BearingPayloads[i])
    \/ \E sid \in SrvSIDs, i \in DOMAIN DrawingPayloads :
          handle_share_drawing(sid, DrawingPayloads[i])
    \/ Tick(SrvTickSteps, SrvMaxTime)

SpecSrv == Init /\ [][NextSrv]_vars

\* The same handlers for three clients that set their team and share drawings
TeamPayloads == << Dict([team |-> "red"]), Dict([team |-> "blue"]), Str("bad") >>
TeamDrawingPayloads ==
    << Dict([geojson |-> "{}", team |-> "red"]),
      Dict([geojson |-> "{}", team |-> "blue"]),
      Dict([geojson |-> "{}"]) >>

NextTeams ==
    \/ \E sid \in SIDs : handle_connect(sid)
    \/ \E sid \in SIDs : handle_disconnect(sid)
    \/ \E sid \in SIDs, i \in DOMAIN TeamPayloads :
          handle_update_state(sid, TeamPayloads[i])
    \/ \E sid \in SIDs, i \in DOMAIN BearingPayloads :
          handle_update_bearing(sid, BearingPayloads[i])
    \/ \E sid \in SIDs, i \in DOMAIN TeamDrawingPayloads :
          handle_share_drawing(sid, TeamDrawingPayloads[i])

SpecTeams == Init /\ [][NextTeams]_vars

(***************************************************************************)
(* server.py: the REST routes, served by the same eventlet loop as the      *)
(* SocketIO handlers and on the same CLIENT_STATES                          *)
(***************************************************************************)
\* ids a REST request names: a uuid of register_client, and a socket sid
UUIDs == {"U"}
RestIds == {"A", "U"}
RestSIDs == {"A"}

\* request.json of POST /api/clients/<id>/state
RestStatePayloads == StatePayloads \o << NoData >>

\* request.json of POST /api/clients/<id>/bearing; the value under "bearing"
\* carries its python type, which line 130 tests
RestBearingPayloads ==
    << NoData,
       Dict(EmptyDict),
       Dict([team |-> Str("red")]),
       Dict([bearing |-> Str("north")]),
       Dict([bearing |-> Num(90)]),
       Dict([bearing |-> Num(0)]),
       Str("bad") >>

\* python truth value of a request body (`not data`)
truthy(data) ==
    CASE data.type = "none" -> FALSE
      [] data.type = "dict" -> DOMAIN data.value # {}
      [] data.type = "str" -> data.value # ""
      [] OTHER -> data.value # 0

\* `key in data` for a body that is a dict or a str without that substring
contains(data, key) == isdict(data) /\ has(data.value, key)

\* GET /api/clients
get_all_clients ==
    /\ ev' = Event("get_all_clients", "", NoData, FALSE, FALSE)
    /\ out' = << >>
    /\ response' = 200
    /\ UNCHANGED <<now, srvVars, allyVars, restVars>>

\* POST /api/clients/register, with the uuid4 it draws
register_client(client_id) ==
    /\ client_id \notin DOMAIN CLIENT_STATES
    /\ ev' = Event("register_client", client_id, NoData, FALSE, FALSE)
    /\ CLIENT_STATES' =
          Put(CLIENT_STATES, client_id,
              [lat |-> 0, lon |-> 0, bearing |-> 0, timestamp |-> now,
               team |-> "blue", kaiTagConnected |-> TRUE, isDead |-> FALSE])
    /\ out' = << >>
    /\ response' = 200
    /\ UNCHANGED <<now, socketio, allyVars, restVars>>

\* DELETE /api/clients/<client_id>
unregister_client(client_id) ==
    /\ ev' = Event("unregister_client", client_id, NoData, FALSE,
                  client_id \in DOMAIN CLIENT_STATES)
    /\ out' = << >>
    /\ IF client_id \in DOMAIN CLIENT_STATES
       THEN /\ CLIENT_STATES' = Del(CLIENT_STATES, client_id)
            /\ response' = 200
       ELSE /\ response' = 404
            /\ UNCHANGED CLIENT_STATES
    /\ UNCHANGED <<now, socketio, allyVars, restVars>>

\* the record update_client_state leaves for a dict body d, from the record
\* rec it found (the empty dict it stores first when the id had none)
rest_merged_record(rec, d, t) ==
    [lat |-> get(d, "lat", get(rec, "lat", 0)),
     lon |-> get(d, "lon", get(rec, "lon", 0)),
     bearing |-> get(d, "bearing", get(rec, "bearing", 0)),
     kaiTagConnected |->
        get(d, "kaiTagConnected", get(rec, "kaiTagConnected", TRUE)),
     isDead |-> get(d, "isDead", get(rec, "isDead", FALSE)),
     team |-> IF has(d, "team") THEN get(d, "team", "blue")
              ELSE IF ~has(rec, "team") THEN "blue"
              ELSE rec["team"],
     timestamp |-> t]

\* POST /api/clients/<client_id>/state
update_client_state(client_id, data) ==
    /\ ev' = Event("update_client_state", client_id, data, FALSE,
                  client_id \in DOMAIN CLIENT_STATES)
    /\ out' = << >>
    /\ IF ~truthy(data) \/ ~isdict(data)
       THEN /\ response' = 400
            /\ UNCHANGED CLIENT_STATES
       ELSE LET rec == IF client_id \notin DOMAIN CLIENT_STATES
                       THEN EmptyDict ELSE CLIENT_STATES[client_id]
            IN  /\ CLIENT_STATES' =
                      Put(CLIENT_STATES, client_id,
                          rest_merged_record(rec, data.value, now))
                /\ response' = 200
    /\ UNCHANGED <<now, socketio, allyVars, restVars>>

\* a rejection that comes after the default record was stored, the order
\* handle_update_bearing has
bearing_rejected_states_created(client_id) ==
    IF client_id \notin DOMAIN CLIENT_STATES
    THEN Put(CLIENT_STATES, client_id, default_state)
    ELSE CLIENT_STATES

\* the table a rejected bearing request leaves: both tests come before the
\* default record is stored
bearing_rejected_states(client_id) == CLIENT_STATES

\* POST /api/clients/<client_id>/bearing
update_client_bearing(client_id, data) ==
    /\ ev' = Event("update_client_bearing", client_id, data, FALSE,
                  client_id \in DOMAIN CLIENT_STATES)
    /\ out' = << >>
    /\ IF ~truthy(data) \/ ~contains(data, "bearing")
       THEN /\ response' = 400
            /\ CLIENT_STATES' = bearing_rejected_states(client_id)
       ELSE LET bearing == data.value["bearing"] IN
            IF ~isnumber(bearing)
            THEN /\ response' = 400
                 /\ CLIENT_STATES' = bearing_rejected_states(client_id)
            ELSE LET found == IF client_id \notin DOMAIN CLIENT_STATES
                              THEN Put(CLIENT_STATES, client_id, default_state)
                              ELSE CLIENT_STATES
                 IN  /\ CLIENT_STATES' =
                           Put(found, client_id,
                               [found[client_id] EXCEPT !.bearing = bearing.value,
                                                        !.timestamp = now])
                     /\ response' = 200
    /\ UNCHANGED <<now, socketio, allyVars, restVars>>

NextRest ==
    \/ get_all_clients
    \/ \E client_id \in UUIDs : register_client(client_id)
    \/ \E client_id \in RestIds : unregister_client(client_id)
    \/ \E client_id \in RestIds, i \in DOMAIN RestStatePayloads :
          update_client_state(client_id, RestStatePayloads[i])
    \/ \E client_id \in RestIds, i \in DOMAIN RestBearingPayloads :
          update_client_bearing(client_id, RestBearingPayloads[i])
    \/ \E sid \in RestSIDs : handle_connect(sid)
    \/ \E sid \in RestSIDs : handle_disconnect(sid)
    \/ \E sid \in RestSIDs, i \in DOMAIN StatePayloads :
          handle_update_state(sid, StatePayloads[i])

SpecRest == Init /\ [][NextRest]_vars

(***************************************************************************)
(* rest_server.py: the same routes on a table of its own, served by         *)
(* app.run(threaded=True): one thread per request, no lock on the table.    *)
(* A thread runs a route one statement at a time; `line` is the statement   *)
(* it is about to run.                                                      *)
(***************************************************************************)
RsIds == {"U"}

\* request.json of POST /api/clients/<id>/state
RsStatePayloads ==
    << Dict([lat |-> 1, team |-> "red"]),
       Dict([bearing |-> 45]),
       Str("bad") >>

\* the thread takes a request and will run the route from `line`
rs_accept(t, op, line, client_id, data) ==
    [restPc EXCEPT ![t] = [Idle EXCEPT !.op = op, !.line = line,
                                       !.client_id = client_id, !.data = data]]

\* the thread's request is over
rs_return(t) == [restPc EXCEPT ![t] = Idle]

\* the thread moves to the statement at `line`
rs_goto(t, line) == [restPc EXCEPT ![t].line = line]

\* GET /api/clients: the thread takes the request, then line 48 returns
\* jsonify(CLIENT_STATES), the table as it is at that moment
rs_get_all_clients(t) ==
    /\ \/ /\ restPc[t] = Idle
          /\ restPc' = rs_accept(t, "get_all_clients", 48, "", NoData)
       \/ /\ restPc[t].op = "get_all_clients"
          /\ restPc' = rs_return(t)
    /\ UNCHANGED <<now, allyVars, srvVars, ev, out, response, restStates>>

\* POST /api/clients/register: the store of line 55, then the return of
\* line 66
rs_register_client(t, client_id) ==
    \/ /\ restPc[t] = Idle
       /\ client_id \notin DOMAIN restStates
       /\ restStates' =
             Put(restStates, client_id,
                 [lat |-> 0, lon |-> 0, bearing |-> 0, timestamp |-> now,
                  team |-> "blue", kaiTagConnected |-> TRUE, isDead |-> FALSE])
       /\ restPc' = rs_accept(t, "register_client", 66, client_id, NoData)
       /\ UNCHANGED <<now, allyVars, srvVars, ev, out, response>>
    \/ /\ restPc[t].op = "register_client"
       /\ restPc[t].client_id = client_id
       /\ restPc' = rs_return(t)
       /\ UNCHANGED <<now, allyVars, srvVars, ev, out, response, restStates>>

\* DELETE /api/clients/<client_id>
rs_unregister_client(t, client_id) ==
    /\ restPc[t] = Idle
    /\ client_id \in DOMAIN restStates
    /\ restStates' = Del(restStates, client_id)
    /\ UNCHANGED <<now, allyVars, srvVars, ev, out, response, restPc>>

\* CLIENT_STATES[client_id][field] = data.get(field, <stored>.get(field, default))
rs_assign(client_id, d, field, default) ==
    Put(restStates, client_id,
        Put(restStates[client_id], field,
            get(d, field, get(restStates[client_id], field, default))))

\* lines 96-99: the team of the body, else the stored one, else "blue"
rs_assign_team(client_id, d) ==
    IF has(d, "team")
    THEN Put(restStates, client_id,
             Put(restStates[client_id], "team", get(d, "team", "blue")))
    ELSE IF ~has(restStates[client_id], "team")
    THEN Put(restStates, client_id, Put(restStates[client_id], "team", "blue"))
    ELSE restStates

\* POST /api/clients/<client_id>/state: lines 80-83 when the thread takes
\* the request
rs_update_client_state_begin(t, client_id, data) ==
    /\ restPc[t] = Idle
    /\ IF ~truthy(data) \/ ~isdict(data)
       THEN UNCHANGED restPc
       ELSE restPc' = rs_accept(t, "update_client_state", 85, client_id, data)
    /\ UNCHANGED <<now, allyVars, srvVars, ev, out, response, restStates>>

\* the statement that follows `line` in update_client_state
rs_next_line(line) ==
    CASE line = 85 -> 89
      [] line = 89 -> 90
      [] line = 90 -> 91
      [] line = 91 -> 92
      [] line = 92 -> 93
      [] line = 93 -> 96
      [] line = 96 -> 101
      [] OTHER -> 105

\* the table after the assignment at `line` of update_client_state
rs_assigned(line, client_id, d) ==
    CASE line = 89 -> rs_assign(client_id, d, "lat", 0)
      [] line = 90 -> rs_assign(client_id, d, "lon", 0)
      [] line = 91 -> rs_assign(client_id, d, "bearing", 0)
      [] line = 92 -> rs_assign(client_id, d, "kaiTagConnected", TRUE)
      [] line = 93 -> rs_assign(client_id, d, "isDead", FALSE)
      [] line = 96 -> rs_assign_team(client_id, d)
      [] OTHER -> Put(restStates, client_id,
                      Put(restStates[client_id], "timestamp", now))

\* POST /api/clients/<client_id>/state: the next statement of lines 85-105.
\* A statement that indexes a record another thread has deleted raises
\* KeyError and ends the request.
rs_update_client_state(t) ==
    /\ restPc[t].op = "update_client_state"
    /\ LET client_id == restPc[t].client_id
           d == restPc[t].data.value
           line == restPc[t].line
       IN  IF line = 85
           THEN /\ restStates' = IF client_id \notin DOMAIN restStates
                                 THEN Put(restStates, client_id, EmptyDict)
                                 ELSE restStates
                /\ restPc' = [restPc EXCEPT
                                ![t].line = rs_next_line(line),
                                ![t].hadState = client_id \in DOMAIN restStates,
                                ![t].before = IF client_id \in DOMAIN restStates
                                              THEN restStates[client_id]
                                              ELSE EmptyDict]
           ELSE IF line = 105
           THEN /\ restPc' = rs_return(t)
                /\ UNCHANGED restStates
           ELSE IF client_id \notin DOMAIN restStates
           THEN /\ restPc' = rs_return(t)
                /\ UNCHANGED restStates
           ELSE /\ restStates' = rs_assigned(line, client_id, d)
                /\ restPc' = rs_goto(t, rs_next_line(line))
    /\ UNCHANGED <<now, allyVars, srvVars, ev, out, response>>

NextThreads ==
    \/ \E t \in RestThreads : rs_get_all_clients(t)
    \/ \E t \in RestThreads, client_id \in UUIDs : rs_register_client(t, client_id)
    \/ \E t \in RestThreads, client_id \in RsIds : rs_unregister_client(t, client_id)
    \/ \E t \in RestThreads, client_id \in RsIds, i \in DOMAIN RsStatePayloads :
          rs_update_client_state_begin(t, client_id, RsStatePayloads[i])
    \/ \E t \in RestThreads : rs_update_client_state(t)

SpecThreads == Init /\ [][NextThreads]_vars

(***************************************************************************)
(* Properties of server.py                                                  *)
(***************************************************************************)
\* C2: handle_update_state leaves the payload's team when the payload carries
\* one; otherwise the team the sender's record had, and "blue" only when the
\* sender had no record.
C2_TeamDefaultOnlyOnCreation ==
    [][(Handled("handle_update_state") /\ isdict(ev'.data)) =>
          CLIENT_STATES'[ev'.sid].team =
             IF has(ev'.data.value, "team") THEN ev'.data.value.team
             ELSE IF ev'.sid \in DOMAIN CLIENT_STATES
                  THEN CLIENT_STATES[ev'.sid].team
                  ELSE "blue"]_vars

\* an update without a team key reached a client stored on team red
C2_Witness ==
    /\ ev.op = "handle_update_state" /\ isdict(ev.data) /\ ev.hadState
    /\ ~has(ev.data.value, "team")
    /\ CLIENT_STATES[ev.sid].team = "red"

\* C3: handle_update_bearing for a sid that has a record leaves that record's
\* kaiTagConnected, isDead, team, lat and lon, and every other sid's record,
\* as they were.
C3_BearingFrame ==
    [][(Handled("handle_update_bearing") /\ ev'.sid \in DOMAIN CLIENT_STATES) =>
          /\ DOMAIN CLIENT_STATES' = DOMAIN CLIENT_STATES
          /\ \A f \in {"kaiTagConnected", "isDead", "team", "lat", "lon"} :
                CLIENT_STATES'[ev'.sid][f] = CLIENT_STATES[ev'.sid][f]
          /\ \A other \in DOMAIN CLIENT_STATES \ {ev'.sid} :
                CLIENT_STATES'[other] = CLIENT_STATES[other]]_vars

\* a bearing update changed the bearing of a record whose other fields are
\* not the defaults, while another client has a record too
C3_Witness ==
    /\ ev.op = "handle_update_bearing" /\ isnumber(ev.data) /\ ev.hadState
    /\ CLIENT_STATES[ev.sid].bearing = 90
    /\ CLIENT_STATES[ev.sid].kaiTagConnected = FALSE
    /\ CLIENT_STATES[ev.sid].isDead = TRUE
    /\ CLIENT_STATES[ev.sid].team = "red"
    /\ CLIENT_STATES[ev.sid].lat = 1
    /\ DOMAIN CLIENT_STATES # {ev.sid}

\* C5: with A and C stored on team red and B on team blue, all connected, a
\* share_drawing({geojson: {}, team: "red"}) from A is sent to C and not to B.
C5_DrawingSkipsOtherTeam ==
    ( /\ ev.op = "handle_share_drawing" /\ ev.sid = "A"
      /\ isdict(ev.data)
      /\ has(ev.data.value, "geojson") /\ has(ev.data.value, "team")
      /\ ev.data.value.team = "red"
      /\ socketio = {"A", "B", "C"}
      /\ DOMAIN CLIENT_STATES = {"A", "B", "C"}
      /\ CLIENT_STATES["A"].team = "red"
      /\ CLIENT_STATES["B"].team = "blue"
      /\ CLIENT_STATES["C"].team = "red" )
    => /\ \E i \in Emits("new_drawing") : "C" \in out[i].to
       /\ \A i \in Emits("new_drawing") : "B" \notin out[i].to

\* C8: handle_disconnect of X removes X's record and emits to every remaining
\* client exactly one client_disconnected(X) and exactly one all_states whose
\* payload has no entry for X.
C8_SrvDisconnectEmits ==
    ev.op = "handle_disconnect" =>
        /\ ev.sid \notin DOMAIN CLIENT_STATES
        /\ Cardinality(Emits("client_disconnected")) = 1
        /\ \A i \in Emits("client_disconnected") :
              out[i].payload = ev.sid /\ socketio \subseteq out[i].to
        /\ Cardinality(Emits("all_states")) = 1
        /\ \A i \in Emits("all_states") :
              ev.sid \notin DOMAIN out[i].payload /\ socketio \subseteq out[i].to

\* C9: a client without a record sends update_state({lat:1, lon:2, team:"red"})
\* and then update_bearing(90); its record is then lat 1, lon 2, bearing 90,
\* team red, isDead false, kaiTagConnected false.
C9_ScenarioRecord ==
    [][( /\ ev.op = "handle_update_state" /\ ev.sid = "A" /\ ~ev.hadState
         /\ isdict(ev.data)
         /\ DOMAIN ev.data.value = {"lat", "lon", "team"}
         /\ ev.data.value.lat = 1 /\ ev.data.value.lon = 2
         /\ ev.data.value.team = "red"
         /\ Handled("handle_update_bearing") /\ ev'.sid = "A"
         /\ isnumber(ev'.data) /\ ev'.data.value = 90 )
       => /\ CLIENT_STATES'["A"].lat = 1
          /\ CLIENT_STATES'["A"].lon = 2
          /\ CLIENT_STATES'["A"].bearing = 90
          /\ CLIENT_STATES'["A"].team = "red"
          /\ CLIENT_STATES'["A"].isDead = FALSE
          /\ CLIENT_STATES'["A"].kaiTagConnected = FALSE]_vars

(***************************************************************************)
(* Properties of ally-server.py                                             *)
(***************************************************************************)
\* the defaults update_state falls back to
AllyDefaults ==
    [lat |-> 0, lon |-> 0, bearing |-> 0, team |-> "blue",
     isDead |-> FALSE, kaiTagConnected |-> FALSE]

\* C1: every update_state with a mapping payload is one step of the field-wise
\* left fold: a field the payload carries takes the payload's value, a field
\* it omits keeps the value stored before the event (the default when the
\* client had no record).
C1_UpdateStateIsFoldStep ==
    [][(Handled("update_state") /\ isdict(ev'.data)) =>
          LET prior == IF ev'.sid \in DOMAIN client_states
                       THEN client_states[ev'.sid] ELSE AllyDefaults
          IN  \A f \in StateFields :
                client_states'[ev'.sid][f] =
                   IF has(ev'.data.value, f) THEN ev'.data.value[f]
                   ELSE prior[f]]_vars

\* C4: the sids sent new_drawing by share_drawing never include the sender,
\* and each has a stored record whose team is the team of the drawing, which
\* is the payload's team whenever the payload carries one.
C4_DrawingOnlyToTeammates ==
    (ev.op = "share_drawing" /\ isdict(ev.data)) =>
        \A i \in Emits("new_drawing") :
            /\ has(ev.data.value, "team") =>
                  out[i].payload.team = ev.data.value.team
            /\ \A r \in out[i].to :
                  /\ r # ev.sid
                  /\ r \in DOMAIN client_states
                  /\ client_states[r].team = out[i].payload.team

\* a drawing reached a teammate while the sender itself is stored on that team
C4_Witness ==
    /\ ev.op = "share_drawing" /\ isdict(ev.data)
    /\ has(ev.data.value, "team")
    /\ Len(out) = 1 /\ out[1].event = "new_drawing" /\ out[1].to # {}
    /\ ev.sid \in DOMAIN client_states
    /\ client_states[ev.sid].team = ev.data.value.team

\* C6: a sid reaped by cleanup_stale_clients is in neither table and in no
\* all_states payload emitted by that pass or later, for as long as it sends
\* no event; and a pass never emits client_disconnected.
C6_ReapedIsGone ==
    /\ \A X \in reapedQuiet :
          /\ X \notin DOMAIN clients
          /\ X \notin DOMAIN client_states
          /\ \A i \in Emits("all_states") : X \notin DOMAIN out[i].payload
    /\ ev.op = "cleanup_stale_clients" => Emits("client_disconnected") = {}

\* a pass reaped a client that had a stored state and told the others
C6_Witness ==
    /\ ev.op = "cleanup_stale_clients"
    /\ reapedQuiet # {}
    /\ Emits("all_states") # {}
    /\ \E i \in Emits("all_states") : out[i].to # {}
    /\ now = 61

\* C7: disconnect of X leaves X in neither table and emits exactly
\* client_disconnected(X) and then one all_states without X, both addressed to
\* every connected sid other than X, whatever X had in the tables before.
C7_DisconnectEmits ==
    ev.op = "disconnect" =>
        /\ ev.sid \notin DOMAIN clients
        /\ ev.sid \notin DOMAIN client_states
        /\ Len(out) = 2
        /\ out[1].event = "client_disconnected"
        /\ out[1].payload = ev.sid
        /\ out[1].to = sio \ {ev.sid}
        /\ out[2].event = "all_states"
        /\ ev.sid \notin DOMAIN out[2].payload
        /\ out[2].to = sio \ {ev.sid}

\* a client reaped earlier (no registry record, no state) disconnects while
\* another client is connected
C7_Witness ==
    /\ ev.op = "disconnect"
    /\ ~ev.hadRecord /\ ~ev.hadState
    /\ Len(out) = 2 /\ out[1].to # {}

\* a disconnecting client with both a registry record and a stored state
C7_WitnessStored ==
    /\ ev.op = "disconnect"
    /\ ev.hadRecord /\ ev.hadState
    /\ Len(out) = 2 /\ out[2].to # {}

\* C10: a client that connected and sends nothing is eventually reaped, and
\* from then on it is in neither table and in no all_states payload.
C10_SilentClientIsReaped ==
    \A X \in AllySIDs :
        /\ (X \in neverSent /\ X \in DOMAIN clients)
              ~> (X \notin neverSent
                    \/ (X \notin DOMAIN clients /\ X \notin DOMAIN client_states))
        /\ [](X \in neverSent /\ X \notin DOMAIN clients =>
                /\ X \notin DOMAIN client_states
                /\ \A i \in Emits("all_states") : X \notin DOMAIN out[i].payload)

\* a client that never sent anything has been reaped
C10_Witness ==
    /\ ev.op = "cleanup_stale_clients"
    /\ \E X \in neverSent : X \in reapedQuiet /\ X \in sio

\* C11: after any interleaving of connect, update_state, share_drawing and
\* disconnect with reaper passes, every sid that has an entry in client_states
\* also has a record in clients.
C11_StatesHaveRecords ==
    DOMAIN client_states \subseteq DOMAIN clients

\* C12: a socket event of server.py with an invalid payload (update_state or
\* share_drawing with a non-dict, update_bearing with a non-number) leaves
\* CLIENT_STATES as it was and emits nothing, also when the sender has no record.
C12_InvalidPayloadIsNoOp ==
    [][(\/ Handled("handle_update_state") /\ ~isdict(ev'.data)
        \/ Handled("handle_share_drawing") /\ ~isdict(ev'.data)
        \/ Handled("handle_update_bearing") /\ ~isnumber(ev'.data)) =>
          /\ CLIENT_STATES' = CLIENT_STATES
          /\ out' = << >>]_vars

\* C13: a share_drawing of ally-server.py whose dict payload lacks geojson or
\* lacks team sends no new_drawing to anybody.
C13_IncompleteDrawingDropped ==
    (/\ ev.op = "share_drawing"
     /\ isdict(ev.data)
     /\ ~(has(ev.data.value, "geojson") /\ has(ev.data.value, "team"))) =>
        Emits("new_drawing") = {}

C20_ReaperPassIsExact ==
    [][Handled("cleanup_stale_clients") =>
          LET old == {X \in DOMAIN clients :
                         now - clients[X].last_update > stale_threshold} IN
          /\ DOMAIN clients' = DOMAIN clients \ old
          /\ \A X \in DOMAIN clients' : clients'[X] = clients[X]
          /\ DOMAIN client_states' = DOMAIN client_states \ old
          /\ \A X \in DOMAIN client_states' : client_states'[X] = client_states[X]
          /\ old = {} => out' = << >>
          /\ old # {} => out' = << Msg("all_states", client_states', sio) >>]_vars

\* a pass ran when a client had been silent for exactly 60 s and kept it
C20_Witness ==
    /\ ev.op = "cleanup_stale_clients"
    /\ out = << >>
    /\ \E X \in DOMAIN clients \cap DOMAIN client_states :
          now - clients[X].last_update = stale_threshold

\* C19: an update_bearing of server.py with a number b from X leaves X with a
\* complete record whose bearing is b (the defaults for the other fields when
\* X had no record), and emits exactly one event: bearing_updated with X, the
\* stored bearing and the stored timestamp, addressed to every connected
\* client, X included; no all_states is emitted.
C19_BearingBroadcast ==
    (ev.op = "handle_update_bearing" /\ isnumber(ev.data)) =>
        LET X == ev.sid IN
        /\ X \in DOMAIN CLIENT_STATES
        /\ DOMAIN CLIENT_STATES[X] = DOMAIN default_state
        /\ CLIENT_STATES[X].bearing = ev.data.value
        /\ ~ev.hadState =>
              \A f \in DOMAIN default_state \ {"bearing", "timestamp"} :
                  CLIENT_STATES[X][f] = default_state[f]
        /\ Len(out) = 1
        /\ out[1].event = "bearing_updated"
        /\ out[1].to = socketio
        /\ X \in out[1].to
        /\ out[1].payload.clientId = X
        /\ out[1].payload.bearing = CLIENT_STATES[X].bearing
        /\ out[1].payload.timestamp = CLIENT_STATES[X].timestamp
        /\ Emits("all_states") = {}

\* a first bearing from a client without a record, sent after the clock moved,
\* reached that client and another one
C19_Witness ==
    /\ ev.op = "handle_update_bearing"
    /\ isnumber(ev.data)
    /\ ~ev.hadState
    /\ Len(out) = 1
    /\ out[1].payload.timestamp = 1
    /\ {ev.sid} \subseteq out[1].to
    /\ out[1].to # {ev.sid}

\* the step is a run of a REST route of server.py
RestHandled ==
    /\ now' = now
    /\ ev'.op \in {"get_all_clients", "register_client", "unregister_client",
                   "update_client_state", "update_client_bearing"}

\* C15: a REST request of server.py answered with an error status leaves
\* CLIENT_STATES unchanged; DELETE for an id without a record answers 404, and
\* POST .../bearing with no bearing or a non-numeric one answers 400, also for
\* an id that has no record.
C15_ErrorLeavesTable ==
    [][RestHandled =>
          /\ response' >= 400 => CLIENT_STATES' = CLIENT_STATES
          /\ (ev'.op = "unregister_client"
               /\ ev'.sid \notin DOMAIN CLIENT_STATES) => response' = 404
          /\ (ev'.op = "update_client_bearing"
               /\ (\/ ~isdict(ev'.data)
                   \/ ~has(ev'.data.value, "bearing")
                   \/ ~isnumber(ev'.data.value["bearing"]))) => response' = 400]_vars

\* a non-numeric bearing for an id without a record was answered 400 while
\* another id had one
C15_Witness ==
    /\ ev.op = "update_client_bearing"
    /\ response = 400
    /\ ~ev.hadState
    /\ isdict(ev.data)
    /\ has(ev.data.value, "bearing")
    /\ ev.sid \notin DOMAIN CLIENT_STATES
    /\ DOMAIN CLIENT_STATES # {}

\* C16: POST /api/clients/<id>/state with a dict body, the empty one included,
\* leaves the record that the update_state socket handler leaves for the same
\* table, id and payload (the timestamp aside), and touches no other record.
C16_RestMergesLikeSocket ==
    [][(Handled("update_client_state") /\ isdict(ev'.data)) =>
          LET X == ev'.sid
              rec == IF X \notin DOMAIN CLIENT_STATES
                     THEN EmptyDict ELSE CLIENT_STATES[X]
              want == merged_record(rec, ev'.data.value, now)
          IN  /\ DOMAIN CLIENT_STATES' = DOMAIN CLIENT_STATES \cup {X}
              /\ \A f \in StateFields : CLIENT_STATES'[X][f] = want[f]
              /\ \A other \in DOMAIN CLIENT_STATES \ {X} :
                    CLIENT_STATES'[other] = CLIENT_STATES[other]]_vars

\* thread t builds its response from the table: the return statement of
\* get_all_clients (48), register_client (66) or update_client_state (105)
rs_returns_states(t) ==
    /\ restPc[t].line \in {48, 66, 105}
    /\ restPc'[t] = Idle

\* C14: the table a request of rest_server.py returns never shows a record
\* that POST /api/clients/<id>/state has only partly written: every record
\* returned is complete, and the record of an id whose update another thread
\* has in progress is either the one that update found or the one it leaves
\* (the timestamp aside).
C14_ReadsSeeWholeRecords ==
    [][\A t \in RestThreads : rs_returns_states(t) =>
          /\ \A id \in DOMAIN restStates :
                DOMAIN restStates[id] = DOMAIN default_state
          /\ \A w \in RestThreads \ {t} :
                LET rq == restPc[w] IN
                (/\ rq.op = "update_client_state"
                 /\ rq.line > 85
                 /\ rq.client_id \in DOMAIN restStates) =>
                    LET r == restStates[rq.client_id]
                        after == rest_merged_record(rq.before, rq.data.value, now)
                    IN  \/ rq.hadState /\ r = rq.before
                        \/ /\ DOMAIN r = DOMAIN after
                           /\ \A f \in StateFields : r[f] = after[f]]_vars

\* C21: every update_state and every share_drawing with a dict payload that
\* comes from a client with a clients record sets that record's last_update
\* to the current time (so that a client sending any event within each 60 s
\* window is never stale).
C21_EveryEventTouches ==
    [][((Handled("update_state") \/ Handled("share_drawing"))
        /\ isdict(ev'.data)
        /\ ev'.sid \in DOMAIN clients) =>
          /\ ev'.sid \in DOMAIN clients'
          /\ clients'[ev'.sid].last_update = now]_vars

\* C22: the new_drawing emits of a share_drawing from X are fixed by the team
\* of the payload ("blue" when it names none) and the stored teams of the
\* clients other than X: each other client stored on that team is sent
\* exactly one new_drawing, nobody else is sent any (in particular no client
\* without a stored state, and not X), whatever X itself has stored.
C22_RecipientsByPayloadTeam ==
    (ev.op = "share_drawing" /\ isdict(ev.data)) =>
        LET X == ev.sid
            team == get(ev.data.value, "team", "blue")
            others == DOMAIN client_states \ {X}
            want == {c \in others : client_states[c].team = team}
            sent(c) == {i \in DOMAIN out : c \in out[i].to}
        IN  /\ \A i \in DOMAIN out :
                  /\ out[i].event = "new_drawing"
                  /\ out[i].payload.team = team
                  /\ out[i].payload.clientId = X
                  /\ Cardinality(out[i].to) = 1
            /\ \A c \in want : Cardinality(sent(c)) = 1
            /\ \A c \in (sio \cup DOMAIN client_states) \ want : sent(c) = {}

\* a sender stored on another team than the one its payload names reached
\* the member of the payload's team
C22_Witness ==
    /\ ev.op = "share_drawing"
    /\ isdict(ev.data)
    /\ has(ev.data.value, "team")
    /\ ev.sid \in DOMAIN client_states
    /\ client_states[ev.sid].team # ev.data.value.team
    /\ Len(out) = 1
    /\ out[1].to # {ev.sid}
    /\ \A r \in out[1].to : client_states[r].team = ev.data.value.team

====
